---- MODULE Spec2Model ----
(***************************************************************************)
(* Tic-Tac-Toe with a tabular Monte-Carlo learner (game_logic.py).         *)
(* The board is a base-3 packed integer, the value table maps canonical    *)
(* (state, action) keys to (sum, count) pairs.                             *)
(***************************************************************************)
EXTENDS Integers, Sequences, FiniteSets, TLC

VARIABLES
    state,      \* Board.state: base-3 packed board, digit i is cell i
    call,       \* the last make_move_cpu call: player, move, returned value
    pc,         \* position of the driver that owns the board
    current,    \* marker of current_player (the player to move)
    moves1,     \* cpu1.moves: canonical keys recorded in this game
    moves2,     \* cpu2.moves
    q_values,   \* the shared table: canonical key -> <<total, count>>
    stats,      \* stats['win_loss'], stats['draws']
    gen,        \* the regime train_cpus is in (1, 2, 3)
    args,       \* <<first_gen_games, second_gen_games, test_games>>
    idx,        \* games completed in the current regime's loop
    drawn,      \* sum of the indices random.choice has drawn so far
    canon,      \* results of canonicalize_state_action on the 8 images
    hist,       \* history: table at game start, plies so far, moves of test games
    gui         \* TicTacToeApp: game_over, markers, play_as_x, pending root.after calls

vars == <<state, call, pc, current, moves1, moves2, q_values, stats,
          gen, args, idx, drawn, canon, hist, gui>>

(***************************************************************************)
(* Bounds of the model.                                                    *)
(***************************************************************************)
\* how far outside 0..8 a requested move index may lie
MaxOut == 1
\* the indices random.choice draws in one run of train_cpus sum to at most this
MaxDrawn == 2
\* largest first_gen_games + second_gen_games + test_games
MaxGames == 3
\* plies played before a move is selected from a supplied table
MaxSelectPlies == 1
\* entries of a supplied table
MaxEntries == 2
\* presses of New Game after the window is built
MaxNewGames == 1
\* calls of _cpu_move scheduled with root.after and not yet run
MaxPending == 2
\* marks the human places on one board
MaxHumanMarks == 5

(***************************************************************************)
(* Board                                                                   *)
(***************************************************************************)
\* divmod(index, 3)
DivMod3(index) == <<index \div 3, index % 3>>

\* Board._get_cell on a given packed state
_get_cell(s, row, col) ==
    LET index == row * 3 + col
    IN  (s \div (3 ^ index)) % 3

\* Board._set_cell: rewrite one base-3 digit
_set_cell(s, row, col, value) ==
    LET index == row * 3 + col
        current_value == _get_cell(s, row, col)
    IN  (s - current_value * (3 ^ index)) + value * (3 ^ index)

is_valid_move(s, row, col) ==
    /\ 0 <= row /\ row < 3
    /\ 0 <= col /\ col < 3
    /\ _get_cell(s, row, col) = 0

\* the list built by the loop over range(9), in increasing index order
RECURSIVE ValidFrom(_, _)
ValidFrom(s, i) ==
    IF i >= 9 THEN <<>>
    ELSE LET rc == DivMod3(i)
         IN  (IF is_valid_move(s, rc[1], rc[2]) THEN <<i>> ELSE <<>>)
             \o ValidFrom(s, i + 1)

get_valid_moves(s) == ValidFrom(s, 0)

\* as make_move_cpu, without the write to the cell
MakeMoveNoWrite(s, player_num, move) ==
    IF 0 <= move /\ move < 9
    THEN LET rc == DivMod3(move)
         IN  IF is_valid_move(s, rc[1], rc[2]) THEN <<s, TRUE>> ELSE <<s, FALSE>>
    ELSE <<s, FALSE>>

\* as make_move_cpu, without the is_valid_move test
MakeMoveUnchecked(s, player_num, move) ==
    IF 0 <= move /\ move < 9
    THEN LET rc == DivMod3(move)
         IN  <<_set_cell(s, rc[1], rc[2], player_num), TRUE>>
    ELSE <<s, FALSE>>

\* as make_move_cpu, with the range test move <= 9
MakeMoveOffByOne(s, player_num, move) ==
    IF 0 <= move /\ move <= 9
    THEN LET rc == DivMod3(move)
         IN  IF _get_cell(s, rc[1], rc[2]) = 0
             THEN <<_set_cell(s, rc[1], rc[2], player_num), TRUE>>
             ELSE <<s, FALSE>>
    ELSE <<s, FALSE>>

\* make_move_cpu: <<new state, returned value>>
make_move_cpu(s, player_num, move) ==
    IF 0 <= move /\ move < 9
    THEN LET rc == DivMod3(move)
         IN  IF is_valid_move(s, rc[1], rc[2])
             THEN <<_set_cell(s, rc[1], rc[2], player_num), TRUE>>
             ELSE <<s, FALSE>>
    ELSE <<s, FALSE>>

\* the eight lines in the order check_winner builds them
Lines(s) ==
    << <<_get_cell(s, 0, 0), _get_cell(s, 0, 1), _get_cell(s, 0, 2)>>,
       <<_get_cell(s, 0, 0), _get_cell(s, 1, 0), _get_cell(s, 2, 0)>>,
       <<_get_cell(s, 1, 0), _get_cell(s, 1, 1), _get_cell(s, 1, 2)>>,
       <<_get_cell(s, 0, 1), _get_cell(s, 1, 1), _get_cell(s, 2, 1)>>,
       <<_get_cell(s, 2, 0), _get_cell(s, 2, 1), _get_cell(s, 2, 2)>>,
       <<_get_cell(s, 0, 2), _get_cell(s, 1, 2), _get_cell(s, 2, 2)>>,
       <<_get_cell(s, 0, 0), _get_cell(s, 1, 1), _get_cell(s, 2, 2)>>,
       <<_get_cell(s, 0, 2), _get_cell(s, 1, 1), _get_cell(s, 2, 0)>> >>

\* line.count(line[0]) == 3 and line[0] != 0
LineDecides(line) ==
    /\ line[2] = line[1]
    /\ line[3] = line[1]
    /\ line[1] # 0

RECURSIVE FirstDecided(_, _)
FirstDecided(ls, i) ==
    IF i > Len(ls) THEN 0
    ELSE IF LineDecides(ls[i]) THEN ls[i][1]
    ELSE FirstDecided(ls, i + 1)

\* as check_winner, with the full-board test before the scan of the lines
CheckWinnerDrawFirst(s) ==
    IF \A r \in 0..2 : \A c \in 0..2 : _get_cell(s, r, c) # 0 THEN -1
    ELSE FirstDecided(Lines(s), 1)

\* as check_winner, without the full-board test
CheckWinnerNoDraw(s) == FirstDecided(Lines(s), 1)

\* -1 draw, 0 in progress, 1 X won, 2 O won
check_winner(s) ==
    LET won == FirstDecided(Lines(s), 1)
    IN  IF won # 0 THEN won
        ELSE IF \A r \in 0..2 : \A c \in 0..2 : _get_cell(s, r, c) # 0 THEN -1
        ELSE 0

(***************************************************************************)
(* Symmetry canonicalisation                                               *)
(***************************************************************************)
\* as _TRANSFORMS, with the rotation by 90 degrees written as the transpose
TransformsRot90AsTranspose(transform_id, r, c) ==
    CASE transform_id = 0 -> <<r, c>>
      [] transform_id = 1 -> <<c, r>>
      [] transform_id = 2 -> <<2 - r, 2 - c>>
      [] transform_id = 3 -> <<2 - c, r>>
      [] transform_id = 4 -> <<r, 2 - c>>
      [] transform_id = 5 -> <<2 - r, c>>
      [] transform_id = 6 -> <<c, r>>
      [] transform_id = 7 -> <<2 - c, 2 - r>>

\* _TRANSFORMS[transform_id](r, c)
_TRANSFORMS(transform_id, r, c) ==
    CASE transform_id = 0 -> <<r, c>>
      [] transform_id = 1 -> <<c, 2 - r>>
      [] transform_id = 2 -> <<2 - r, 2 - c>>
      [] transform_id = 3 -> <<2 - c, r>>
      [] transform_id = 4 -> <<r, 2 - c>>
      [] transform_id = 5 -> <<2 - r, c>>
      [] transform_id = 6 -> <<c, r>>
      [] transform_id = 7 -> <<2 - c, 2 - r>>

_transform_index(index, transform_id) ==
    LET rc == DivMod3(index)
        new == _TRANSFORMS(transform_id, rc[1], rc[2])
    IN  new[1] * 3 + new[2]

\* _transform_index tabulated over its whole domain
IndexImage ==
    [transform_id \in 0..7 |->
        [index \in 0..8 |-> _transform_index(index, transform_id)]]

\* what one pass of the loop over range(9) adds to new_state
TransformCell(s, transform_id, i) ==
    LET cell_value == (s \div (3 ^ i)) % 3
    IN  IF cell_value # 0
        THEN cell_value * (3 ^ IndexImage[transform_id][i])
        ELSE 0

\* new_state after the nine passes of the loop
_transform_state(s, transform_id) ==
    TransformCell(s, transform_id, 0) + TransformCell(s, transform_id, 1)
    + TransformCell(s, transform_id, 2) + TransformCell(s, transform_id, 3)
    + TransformCell(s, transform_id, 4) + TransformCell(s, transform_id, 5)
    + TransformCell(s, transform_id, 6) + TransformCell(s, transform_id, 7)
    + TransformCell(s, transform_id, 8)

\* as KeyLess, comparing the states only
KeyLessStateOnly(key, best_key) == key[1] < best_key[1]

\* Python's tuple comparison key < best_key on (state, action) pairs
KeyLess(key, best_key) ==
    \/ key[1] < best_key[1]
    \/ key[1] = best_key[1] /\ key[2] < best_key[2]

\* as CanonFrom, with the action of the key left untransformed
RECURSIVE CanonFromKeepAction(_, _, _, _)
CanonFromKeepAction(s, action, transform_id, best_key) ==
    IF transform_id >= 8 THEN best_key
    ELSE LET key == <<_transform_state(s, transform_id), action>>
         IN  CanonFromKeepAction(s, action, transform_id + 1,
                                 IF best_key = <<>> \/ KeyLess(key, best_key)
                                 THEN key ELSE best_key)

RECURSIVE CanonFrom(_, _, _, _)
CanonFrom(s, action, transform_id, best_key) ==
    IF transform_id >= 8 THEN best_key
    ELSE LET key == <<_transform_state(s, transform_id),
                      IndexImage[transform_id][action]>>
         IN  CanonFrom(s, action, transform_id + 1,
                       IF best_key = <<>> \/ KeyLess(key, best_key)
                       THEN key ELSE best_key)

\* as canonicalize_state_action, returning the pair it was given
NoCanon(s, action) == <<s, action>>

\* best_key starts as None, written <<>>
canonicalize_state_action(s, action) == CanonFrom(s, action, 0, <<>>)

(***************************************************************************)
(* Policy: CPU.get_and_save_move                                           *)
(***************************************************************************)
Min(a, b) == IF a < b THEN a ELSE b

Range(seq) == {seq[i] : i \in 1..Len(seq)}

\* q_values.get(key, (0, 0)): a read that never inserts
QGet(q, key) == IF key \in DOMAIN q THEN q[key] ELSE <<0, 0>>

\* q_values[key] = value
QSet(q, key, value) ==
    [k \in (DOMAIN q) \cup {key} |-> IF k = key THEN value ELSE q[k]]

\* avg = total / count if count > 0 else 0, kept as an exact fraction
\* <<numerator, denominator>> with a positive denominator
AvgOf(total, count) == IF count > 0 THEN <<total, count>> ELSE <<0, 1>>

\* comparison and equality of two averages (float division of small
\* integers is exact enough that equal floats are equal fractions)
AvgLess(a, b) == a[1] * b[2] < b[1] * a[2]
AvgEq(a, b) == a[1] * b[2] = b[1] * a[2]

\* random.choice(seq): <<the element at a drawn index, the indices drawn so far>>
RandomChoice(seq, d) ==
    {<<seq[i + 1], d + i>> : i \in 0..Min(Len(seq) - 1, MaxDrawn - d)}

\* epsilon in tenths: 0.1 by default and in regime 2, 0 in regime 3
DefaultEpsilon == 1
TestEpsilon == 0
EpsilonOf(g) == IF g = 3 THEN TestEpsilon ELSE DefaultEpsilon

\* as LearnOf, with learning left on in regime 3
LearnAlways(g) == TRUE

\* learn: True by default, False in regime 3
LearnOf(g) == g # 3

\* outcomes of: gen == 1 or q_values is None or random.random() < epsilon
\* (random.random() lies in [0, 1), train_cpus never passes None)
ExploreOutcomes(g, epsilon) ==
    IF g = 1 THEN {TRUE}
    ELSE IF epsilon <= 0 THEN {FALSE}
    ELSE BOOLEAN

\* for m in moves: q_avgs.append((avg, count, m))
RECURSIVE QAvgsFrom(_, _, _)
QAvgsFrom(s, q, moves) ==
    IF moves = <<>> THEN <<>>
    ELSE LET m == Head(moves)
             key == canonicalize_state_action(s, m)
             tc == QGet(q, key)
         IN  << <<AvgOf(tc[1], tc[2]), tc[2], m>> >> \o QAvgsFrom(s, q, Tail(moves))

\* q_avgs: one <<avg, count, m>> per legal move, in move order
QAvgs(s, q) == QAvgsFrom(s, q, get_valid_moves(s))

\* max(q_avgs, key=lambda x: x[0])[0]
MaxAvg(q_avgs) ==
    LET first == CHOOSE i \in 1..Len(q_avgs) :
                    /\ \A j \in 1..Len(q_avgs) : ~AvgLess(q_avgs[i][1], q_avgs[j][1])
                    /\ \A j \in 1..(i - 1) : AvgLess(q_avgs[j][1], q_avgs[i][1])
    IN  q_avgs[first][1]

IsMaxAvg(x, max_avg) == AvgEq(x[1], max_avg)

\* max(best_moves, key=lambda x: x[0])[0]
MaxCount(best) ==
    CHOOSE n \in {best[i][2] : i \in 1..Len(best)} :
        \A i \in 1..Len(best) : best[i][2] <= n

\* as BestMoves, without the filter on the count
BestMovesByAvgOnly(s, q) ==
    LET q_avgs == QAvgs(s, q)
        max_avg == MaxAvg(q_avgs)
        best == SelectSeq(q_avgs, LAMBDA x : IsMaxAvg(x, max_avg))
    IN  [i \in 1..Len(best) |-> best[i][3]]

\* the final best_moves list: maximal average, then maximal count
BestMoves(s, q) ==
    LET q_avgs == QAvgs(s, q)
        max_avg == MaxAvg(q_avgs)
        best == SelectSeq(q_avgs, LAMBDA x : IsMaxAvg(x, max_avg))
        max_count == MaxCount(best)
        kept == SelectSeq(best, LAMBDA x : x[2] = max_count)
    IN  [i \in 1..Len(kept) |-> kept[i][3]]

\* min(best_moves)
MinOf(seq) == CHOOSE m \in Range(seq) : \A n \in Range(seq) : m <= n

\* as get_and_save_move, with random.choice(best_moves) in every regime
GetAndSaveMoveRandomTie(s, g, q, epsilon, explore, d) ==
    IF explore THEN RandomChoice(get_valid_moves(s), d)
    ELSE RandomChoice(BestMoves(s, q), d)

\* the moves get_and_save_move can return, given the exploration outcome,
\* each with the indices drawn so far
get_and_save_move(s, g, q, epsilon, explore, d) ==
    IF explore THEN RandomChoice(get_valid_moves(s), d)
    ELSE LET best_moves == BestMoves(s, q)
         IN  IF g = 3 /\ epsilon = 0 THEN {<<MinOf(best_moves), d>>}
             ELSE RandomChoice(best_moves, d)

(***************************************************************************)
(* simulate_game                                                           *)
(***************************************************************************)
Cpu1Marker == 1
Cpu2Marker == 2

\* as Rewards, with every decisive game credited to cpu1
RewardsToFirst(result) ==
    IF result = -1 THEN <<0, 0>> ELSE <<1, -1>>

\* as Rewards, with the two decisive branches exchanged
RewardsSwapped(result) ==
    IF result = -1 THEN <<0, 0>>
    ELSE IF result = Cpu1Marker THEN <<-1, 1>>
    ELSE <<1, -1>>

\* <<reward1, reward2>> for a terminal result
Rewards(result) ==
    IF result = -1 THEN <<0, 0>>
    ELSE IF result = Cpu1Marker THEN <<1, -1>>
    ELSE <<-1, 1>>

\* as CountOutcome, with every outcome counted as decisive
CountOutcomeAsDecisive(st, result) == [st EXCEPT !.win_loss = @ + 1]

\* stats['draws'] += 1 or stats['win_loss'] += 1
CountOutcome(st, result) ==
    IF result = -1 THEN [st EXCEPT !.draws = @ + 1]
    ELSE [st EXCEPT !.win_loss = @ + 1]

\* as Backprop, with the count written as 1 instead of times + 1
RECURSIVE BackpropCountOne(_, _, _)
BackpropCountOne(q, keys, reward) ==
    IF keys = <<>> THEN q
    ELSE LET tc == QGet(q, Head(keys))
         IN  BackpropCountOne(QSet(q, Head(keys), <<tc[1] + reward, 1>>),
                              Tail(keys), reward)

\* for key in moves: q_values[key] = (total_reward + reward, times + 1)
RECURSIVE Backprop(_, _, _)
Backprop(q, keys, reward) ==
    IF keys = <<>> THEN q
    ELSE LET tc == QGet(q, Head(keys))
         IN  Backprop(QSet(q, Head(keys), <<tc[1] + reward, tc[2] + 1>>),
                      Tail(keys), reward)

Learn(q, m1, m2, rewards) == Backprop(Backprop(q, m1, rewards[1]), m2, rewards[2])

\* as Terminal, stopping at a win only
TerminalOnWin(result) == result > 0

\* as Terminal, stopping at a draw only
TerminalOnDraw(result) == result = -1

\* if result != 0: the game is over
Terminal(result) == result # 0

\* as Cleared, with the history kept from the game before
NotCleared(moves) == moves

\* cpu.moves = [] at the start of a game
Cleared(moves) == <<>>

\* as Other, with the same agent kept as current_player
OtherSame(marker) == marker

\* current_player, other_player = other_player, current_player
Other(marker) == IF marker = Cpu1Marker THEN Cpu2Marker ELSE Cpu1Marker

\* the application before it is built: no game, nothing scheduled
NoGui == <<>>

NoCall == [player |-> 0, move |-> 0, ret |-> FALSE]
NoStats == [win_loss |-> 0, draws |-> 0]
EmptyTable == [k \in {} |-> <<0, 0>>]

\* simulate_game, lines 171-174: fresh board, cleared histories, cpu1 first
simulate_game_begin ==
    /\ pc = "train"
    /\ idx < args[gen]
    /\ state' = 0
    /\ moves1' = Cleared(moves1)
    /\ moves2' = Cleared(moves2)
    /\ current' = Cpu1Marker
    /\ pc' = "play"
    /\ call' = NoCall
    /\ hist' = [hist EXCEPT !.qgame = q_values, !.trace = <<>>]
    /\ UNCHANGED <<q_values, stats, gen, args, idx, drawn, canon, gui>>

\* one iteration of the while loop of simulate_game
simulate_game_step ==
    /\ pc = "play"
    /\ \E explore \in ExploreOutcomes(gen, EpsilonOf(gen)) :
       \E choice \in get_and_save_move(state, gen, q_values, EpsilonOf(gen),
                                        explore, drawn) :
         LET move == choice[1]
             key == canonicalize_state_action(state, move)
             mv == make_move_cpu(state, current, move)
             result == check_winner(mv[1])
             m1 == IF current = Cpu1Marker THEN Append(moves1, key) ELSE moves1
             m2 == IF current = Cpu2Marker THEN Append(moves2, key) ELSE moves2
         IN  /\ state' = mv[1]
             /\ drawn' = choice[2]
             /\ call' = [player |-> current, move |-> move, ret |-> mv[2]]
             /\ moves1' = m1
             /\ moves2' = m2
             /\ hist' = LET trace == IF gen = 3 THEN Append(hist.trace, move)
                                     ELSE hist.trace
                        IN  [hist EXCEPT
                               !.plies = @ + (IF LearnOf(gen) THEN 1 ELSE 0),
                               !.trace = trace,
                               !.first = IF gen = 3 /\ idx = 0 /\ Terminal(result)
                                         THEN <<trace, result>> ELSE @]
             /\ IF Terminal(result)
                THEN /\ stats' = CountOutcome(stats, result)
                     /\ q_values' = IF LearnOf(gen)
                                    THEN Learn(q_values, m1, m2, Rewards(result))
                                    ELSE q_values
                     /\ pc' = "train"
                     /\ idx' = idx + 1
                     /\ current' = current
                ELSE /\ current' = Other(current)
                     /\ UNCHANGED <<stats, q_values, pc, idx>>
    /\ UNCHANGED <<gen, args, canon, gui>>

(***************************************************************************)
(* train_cpus                                                              *)
(***************************************************************************)
\* the regime's loop is over: fresh statistics for the next regime
train_next_regime ==
    /\ pc = "train"
    /\ idx = args[gen]
    /\ gen < 3
    /\ gen = 2 => args[3] > 0
    /\ gen' = gen + 1
    /\ stats' = NoStats
    /\ idx' = 0
    /\ hist' = [hist EXCEPT !.qregime = q_values]
    /\ UNCHANGED <<state, call, pc, current, moves1, moves2, q_values, args,
                   drawn, canon, gui>>

train_return ==
    /\ pc = "train"
    /\ idx = args[gen]
    /\ gen = 3 \/ (gen = 2 /\ args[3] = 0)
    /\ pc' = "done"
    /\ UNCHANGED <<state, call, current, moves1, moves2, q_values, stats,
                   gen, args, idx, drawn, canon, hist, gui>>

\* qgame: the table when the game began; qregime: the table when the regime
\* began; plies: plies of the learning games so far; trace: the moves of the
\* test game being played; first: moves and result of the first test game
NoHist == [qgame |-> EmptyTable, qregime |-> EmptyTable, plies |-> 0,
           trace |-> <<>>, first |-> <<>>]

Init ==
    /\ state = 0
    /\ call = NoCall
    /\ pc = "train"
    /\ current = Cpu1Marker
    /\ moves1 = <<>>
    /\ moves2 = <<>>
    /\ q_values = EmptyTable
    /\ stats = NoStats
    /\ gen = 1
    /\ args \in {a \in (0..MaxGames) \X (0..MaxGames) \X (0..MaxGames) :
                    a[1] + a[2] + a[3] <= MaxGames}
    /\ drawn = 0
    /\ idx = 0
    /\ canon = <<>>
    /\ hist = NoHist
    /\ gui = NoGui

Next ==
    \/ simulate_game_begin
    \/ simulate_game_step
    \/ train_next_regime
    \/ train_return

Spec == Init /\ [][Next]_vars

\* when an iteration of the loop of simulate_game can run: the loop has not
\* been left and random.choice / min have a legal move to pick
StepEnabled == pc = "play" /\ get_valid_moves(state) # <<>>

\* simulate_game runs in one thread and nothing in an iteration of its loop
\* blocks, so an iteration that can run does run: weak fairness of
\* simulate_game_step, WF_vars(simulate_game_step), with its enabling
\* condition written out as StepEnabled
FairSpec ==
    /\ Init
    /\ [][Next]_vars
    /\ ([]<>(~StepEnabled) \/ []<><<simulate_game_step>>_vars)

(***************************************************************************)
(* A caller of the board alone: it requests moves by index, legal or not,  *)
(* for the player to move, and stops at a terminal result.                 *)
(***************************************************************************)
InitBoard ==
    /\ state = 0
    /\ call = NoCall
    /\ pc = "caller"
    /\ current = Cpu1Marker
    /\ moves1 = <<>>
    /\ moves2 = <<>>
    /\ q_values = EmptyTable
    /\ stats = NoStats
    /\ gen = 1
    /\ args = <<0, 0, 0>>
    /\ idx = 0
    /\ drawn = 0
    /\ canon = <<>>
    /\ hist = NoHist
    /\ gui = NoGui

\* board.make_move_cpu(marker, move); result = board.check_winner()
board_make_move ==
    /\ pc = "caller"
    /\ \E move \in (0 - MaxOut)..(8 + MaxOut) :
         LET mv == make_move_cpu(state, current, move)
         IN  /\ state' = mv[1]
             /\ call' = [player |-> current, move |-> move, ret |-> mv[2]]
             /\ IF mv[2]
                THEN IF Terminal(check_winner(mv[1]))
                     THEN pc' = "over" /\ current' = current
                     ELSE pc' = pc /\ current' = Other(current)
                ELSE UNCHANGED <<pc, current>>
    /\ UNCHANGED <<moves1, moves2, q_values, stats, gen, args, idx, drawn,
                   canon, hist, gui>>

NextBoard == board_make_move

BoardSpec == InitBoard /\ [][NextBoard]_vars

(***************************************************************************)
(* canonicalize_state_action applied to the 8 symmetric images of every    *)
(* position of legal alternating play and every legal action in it.        *)
(***************************************************************************)
InitCanon ==
    /\ state = 0
    /\ call = NoCall
    /\ pc = "canon"
    /\ current = Cpu1Marker
    /\ moves1 = <<>>
    /\ moves2 = <<>>
    /\ q_values = EmptyTable
    /\ stats = NoStats
    /\ gen = 1
    /\ args = <<0, 0, 0>>
    /\ idx = 0
    /\ drawn = 0
    /\ canon = <<>>
    /\ hist = NoHist
    /\ gui = NoGui

\* one legal ply on a board still in progress
canon_play ==
    /\ pc = "canon"
    /\ ~Terminal(check_winner(state))
    /\ \E move \in Range(get_valid_moves(state)) :
         state' = make_move_cpu(state, current, move)[1]
    /\ current' = Other(current)
    /\ canon' = <<>>
    /\ UNCHANGED <<call, pc, moves1, moves2, q_values, stats, gen, args, idx,
                   drawn, hist, gui>>

\* canonicalize_state_action on each image of (state, action)
canon_apply ==
    /\ pc = "canon"
    /\ canon = <<>>
    /\ ~Terminal(check_winner(state))
    /\ \E action \in Range(get_valid_moves(state)) :
         canon' = [action |-> action,
                   keys |-> [t \in 0..7 |->
                        canonicalize_state_action(_transform_state(state, t),
                                                  _transform_index(action, t))],
                   again |-> <<>>]
    /\ UNCHANGED <<state, call, pc, current, moves1, moves2, q_values, stats,
                   gen, args, idx, drawn, hist, gui>>

\* canonicalize_state_action on each image of the key it returned
canon_again ==
    /\ pc = "canon"
    /\ canon # <<>>
    /\ canon.again = <<>>
    /\ LET key == canon.keys[0]
       IN  canon' = [canon EXCEPT !.again = [t \in 0..7 |->
                        canonicalize_state_action(_transform_state(key[1], t),
                                                  _transform_index(key[2], t))]]
    /\ UNCHANGED <<state, call, pc, current, moves1, moves2, q_values, stats,
                   gen, args, idx, drawn, hist, gui>>

NextCanon == canon_play \/ canon_apply \/ canon_again

CanonSpec == InitCanon /\ [][NextCanon]_vars

(***************************************************************************)
(* Greedy play from a supplied table (gen=3, epsilon=0), as in             *)
(* play_against_cpu: the table is any mapping handed in by the caller.     *)
(***************************************************************************)
\* the (total, count) pairs a supplied table holds
TableValues == {<<1, 2>>, <<2, 4>>, <<0, 1>>, <<-1, 1>>}

InitSelect ==
    /\ state = 0
    /\ call = NoCall
    /\ pc = "select"
    /\ current = Cpu1Marker
    /\ moves1 = <<>>
    /\ moves2 = <<>>
    /\ q_values = EmptyTable
    /\ stats = NoStats
    /\ gen = 3
    /\ args = <<0, 0, 0>>
    /\ idx = 0
    /\ drawn = 0
    /\ canon = <<>>
    /\ hist = NoHist
    /\ gui = NoGui

\* a legal ply that leads to the position the move is selected in
select_play ==
    /\ pc = "select"
    /\ q_values = EmptyTable
    /\ 9 - Len(get_valid_moves(state)) < MaxSelectPlies
    /\ ~Terminal(check_winner(state))
    /\ \E move \in Range(get_valid_moves(state)) :
         state' = make_move_cpu(state, current, move)[1]
    /\ current' = Other(current)
    /\ UNCHANGED <<call, pc, moves1, moves2, q_values, stats, gen, args, idx,
                   drawn, canon, hist, gui>>

\* the supplied table holds one more entry for a move of this position
select_supply ==
    /\ pc = "select"
    /\ ~Terminal(check_winner(state))
    /\ Cardinality(DOMAIN q_values) < MaxEntries
    /\ \E move \in Range(get_valid_moves(state)) :
         LET key == canonicalize_state_action(state, move)
         IN  /\ key \notin DOMAIN q_values
             /\ \E value \in TableValues : q_values' = QSet(q_values, key, value)
    /\ UNCHANGED <<state, call, pc, current, moves1, moves2, stats, gen, args,
                   idx, drawn, canon, hist, gui>>

\* move = cpu.get_and_save_move(board, gen=3, q_values=q_values, epsilon=0)
\* board.make_move_cpu(cpu.marker, move)
select_move ==
    /\ pc = "select"
    /\ ~Terminal(check_winner(state))
    /\ \E choice \in get_and_save_move(state, gen, q_values, TestEpsilon, FALSE, drawn) :
         LET move == choice[1]
             key == canonicalize_state_action(state, move)
             mv == make_move_cpu(state, current, move)
         IN  /\ state' = mv[1]
             /\ call' = [player |-> current, move |-> move, ret |-> mv[2]]
             /\ moves1' = IF current = Cpu1Marker THEN Append(moves1, key) ELSE moves1
             /\ moves2' = IF current = Cpu2Marker THEN Append(moves2, key) ELSE moves2
    /\ pc' = "selected"
    /\ UNCHANGED <<current, q_values, stats, gen, args, idx, drawn, canon,
                   hist, gui>>

NextSelect == select_play \/ select_supply \/ select_move

SelectSpec == InitSelect /\ [][NextSelect]_vars

(***************************************************************************)
(* The window of gui.py: Tk runs one handler at a time, to its end; between *)
(* two handlers the user may click a cell, press New Game or toggle        *)
(* "Play as X", and a callback scheduled with root.after may come due.     *)
(***************************************************************************)
\* cell i of a packed board, read off its base-3 digits
Digit(s, i) == (s \div (3 ^ i)) % 3

Cells == 0..8

\* the number of marks of player p on a packed board
Marks(s, p) == Cardinality({i \in Cells : Digit(s, i) = p})

\* the games of one window: the one __init__ starts and one per New Game
Games == 1..(MaxNewGames + 1)

\* self.human_marker = 1 if self.play_as_x.get() else 2
HumanMarkerOf(play_as_x) == IF play_as_x THEN 1 ELSE 2

\* self.cpu_marker = 2 if self.human_marker == 1 else 1
CpuMarkerOf(human_marker) == IF human_marker = 1 THEN 2 ELSE 1

\* root.after(ms, self._cpu_move) called during game g: one more pending call
After(after, g) == [after EXCEPT ![g] = @ + 1]

RECURSIVE SumOver(_, _)
SumOver(f, S) ==
    IF S = {} THEN 0
    ELSE LET x == CHOOSE y \in S : TRUE
         IN  f[x] + SumOver(f, S \ {x})

\* the calls scheduled with root.after that have not run yet
Pending(after) == SumOver(after, DOMAIN after)

\* _finish_game_if_needed: whether it sets game_over and returns True
_finish_game_if_needed(s) == check_winner(s) # 0

\* the application after __init__: _build_ui leaves "Play as X" ticked and
\* the first _new_game makes the human X and schedules nothing
InitGui ==
    /\ state = 0
    /\ call = NoCall
    /\ pc = "gui"
    /\ current = Cpu1Marker
    /\ moves1 = <<>>
    /\ moves2 = <<>>
    /\ q_values = EmptyTable
    /\ stats = NoStats
    /\ gen = 3
    /\ args = <<0, 0, 0>>
    /\ idx = 0
    /\ drawn = 0
    /\ canon = <<>>
    /\ hist = NoHist
    /\ gui = [game_over |-> FALSE,
              human_marker |-> 1,
              cpu_marker |-> 2,
              play_as_x |-> TRUE,
              after |-> [g \in Games |-> 0],
              game |-> 1]

\* the user ticks or unticks "Play as X"
toggle_play_as_x ==
    /\ pc = "gui"
    /\ gui' = [gui EXCEPT !.play_as_x = ~@]
    /\ UNCHANGED <<state, call, pc, current, moves1, moves2, q_values, stats,
                   gen, args, idx, drawn, canon, hist>>

\* the user presses New Game
_new_game ==
    /\ pc = "gui"
    /\ gui.game < MaxNewGames + 1
    /\ LET human_marker == HumanMarkerOf(gui.play_as_x)
           cpu_marker == CpuMarkerOf(human_marker)
           game == gui.game + 1
       IN  /\ state' = 0
           /\ moves1' = <<>>
           /\ moves2' = <<>>
           /\ gui' = [gui EXCEPT
                        !.game_over = FALSE,
                        !.human_marker = human_marker,
                        !.cpu_marker = cpu_marker,
                        !.game = game,
                        !.after = IF cpu_marker = 1 THEN After(@, game) ELSE @]
    /\ UNCHANGED <<call, pc, current, q_values, stats, gen, args, idx, drawn,
                   canon, hist>>

\* the user clicks cell index
_human_move ==
    /\ pc = "gui"
    /\ Pending(gui.after) < MaxPending
    /\ Marks(state, gui.human_marker) < MaxHumanMarks
    /\ \E index \in 0..8 :
         LET rc == DivMod3(index)
         IN  IF gui.game_over \/ ~is_valid_move(state, rc[1], rc[2])
             THEN UNCHANGED <<state, call, gui>>
             ELSE LET mv == make_move_cpu(state, gui.human_marker, index)
                  IN  /\ state' = mv[1]
                      /\ call' = [player |-> gui.human_marker, move |-> index,
                                  ret |-> mv[2]]
                      /\ gui' = IF _finish_game_if_needed(mv[1])
                                THEN [gui EXCEPT !.game_over = TRUE]
                                ELSE [gui EXCEPT !.after = After(@, gui.game)]
    /\ UNCHANGED <<pc, current, moves1, moves2, q_values, stats, gen, args,
                   idx, drawn, canon, hist>>

\* a call scheduled with root.after during game g comes due
_cpu_move ==
    /\ pc = "gui"
    /\ \E g \in Games :
         /\ gui.after[g] > 0
         /\ LET after == [gui.after EXCEPT ![g] = @ - 1]
            IN  IF gui.game_over
                THEN /\ gui' = [gui EXCEPT !.after = after]
                     /\ UNCHANGED <<state, call, moves1, moves2, drawn>>
                ELSE \E explore \in ExploreOutcomes(3, TestEpsilon) :
                     \E choice \in get_and_save_move(state, 3, q_values,
                                       TestEpsilon, explore, drawn) :
                       LET move == choice[1]
                           key == canonicalize_state_action(state, move)
                           mv == make_move_cpu(state, gui.cpu_marker, move)
                       IN  /\ state' = mv[1]
                           /\ drawn' = choice[2]
                           /\ call' = [player |-> gui.cpu_marker,
                                       move |-> move, ret |-> mv[2]]
                           /\ moves1' = IF gui.cpu_marker = 1
                                        THEN Append(moves1, key) ELSE moves1
                           /\ moves2' = IF gui.cpu_marker = 2
                                        THEN Append(moves2, key) ELSE moves2
                           /\ gui' = [gui EXCEPT
                                        !.after = after,
                                        !.game_over = _finish_game_if_needed(mv[1])]
    /\ UNCHANGED <<pc, current, q_values, stats, gen, args, idx, canon, hist>>

NextGui == toggle_play_as_x \/ _new_game \/ _human_move \/ _cpu_move

GuiSpec == InitGui /\ [][NextGui]_vars

(***************************************************************************)
(* Properties                                                              *)
(***************************************************************************)
EmptyCells(s) == {i \in Cells : Digit(s, i) = 0}

\* the 8 lines as sets of flat indices
WinLines ==
    {{0, 1, 2}, {3, 4, 5}, {6, 7, 8},
     {0, 3, 6}, {1, 4, 7}, {2, 5, 8},
     {0, 4, 8}, {2, 4, 6}}

HoldsLine(s, p) == \E L \in WinLines : \A i \in L : Digit(s, i) = p

\* C1. Symmetry invariance: for a position S of legal play and a legal action
\* A, canonicalize_state_action returns the same key on every one of the 8
\* symmetric images (T(S), T(A)).
SymmetryInvariance ==
    canon # <<>> =>
        \A t1 \in 0..7 : \A t2 \in 0..7 : canon.keys[t1] = canon.keys[t2]

\* the images of an asymmetric position were canonicalised
SymmetryInvarianceWitness ==
    /\ canon # <<>>
    /\ \A t \in 1..7 : _transform_state(state, t) # state
    /\ canon.keys[0] # <<state, canon.action>>

\* C7. Result correctness: check_winner returns a player's marker iff one of
\* the 8 lines holds three of that marker, -1 iff no line is completed and no
\* cell is empty, and 0 otherwise; a full board with a completed line is a win.
ResultCorrectness ==
    LET result == check_winner(state)
        decided == HoldsLine(state, 1) \/ HoldsLine(state, 2)
    IN  /\ \A p \in {1, 2} : (result = p) <=> HoldsLine(state, p)
        /\ (result = -1) <=> (~decided /\ EmptyCells(state) = {})
        /\ (result = 0) <=> (~decided /\ EmptyCells(state) # {})

\* a completely filled board with a completed line, reported as a win
ResultCorrectnessWitness ==
    /\ pc = "over"
    /\ EmptyCells(state) = {}
    /\ HoldsLine(state, 1)
    /\ check_winner(state) = 1

\* C8. Legal-move monotonicity: a successful make_move_cpu shortens
\* get_valid_moves() by exactly one and removes the moved-to index, changes
\* exactly the target cell from empty to the player's marker, and no index
\* absent from get_valid_moves() ever comes back.
LegalMoveMonotonicity ==
    [][ LET before == get_valid_moves(state)
            after == get_valid_moves(state')
            move == call'.move
        IN  /\ Range(after) \subseteq Range(before)
            /\ call'.ret =>
                  /\ Len(after) = Len(before) - 1
                  /\ move \notin Range(after)
                  /\ Digit(state, move) = 0
                  /\ Digit(state', move) = call'.player
                  /\ \A i \in Cells \ {move} : Digit(state', i) = Digit(state, i)
      ]_vars

\* a successful move on a board that already holds marks
LegalMoveMonotonicityWitness ==
    /\ call.ret
    /\ Cardinality(EmptyCells(state)) = 5

\* C9. An illegal move is a recoverable failure: with an index outside 0..8
\* or the index of an occupied cell make_move_cpu returns False and leaves the
\* board unchanged; it returns True only for an empty cell in range.
IllegalMoveFails ==
    [][ LET move == call'.move
            legal == move \in Cells /\ Digit(state, move) = 0
        IN  /\ ~legal => (call'.ret = FALSE /\ state' = state)
            /\ call'.ret = TRUE => legal
      ]_vars

\* a request for an occupied cell was refused
IllegalMoveFailsWitness ==
    /\ call.player # 0
    /\ call.ret = FALSE
    /\ call.move \in Cells
    /\ Digit(state, call.move) # 0

\* C11. Canonical key stability: canonicalize_state_action applied to the key
\* it returned, or to any of the 8 symmetric images of that key, returns that
\* same key (idempotence).
CanonicalKeyStability ==
    (canon # <<>> /\ canon.again # <<>>) =>
        \A t \in 0..7 : canon.again[t] = canon.keys[0]

\* the key of an asymmetric position, different from the input, was canonicalised again
CanonicalKeyStabilityWitness ==
    /\ canon # <<>>
    /\ canon.again # <<>>
    /\ canon.keys[0] # <<state, canon.action>>
    /\ \A t \in 1..7 : _transform_state(canon.keys[0][1], t) # canon.keys[0][1]
    /\ canon.again[5] = canon.keys[0]

\* (state, action) pairs in Python's tuple order, less than or equal
LexLeq(a, b) == a[1] < b[1] \/ (a[1] = b[1] /\ a[2] <= b[2])

\* the image of (s, action) under transform t, the same t on both
ImageOf(s, action, t) == <<_transform_state(s, t), _transform_index(action, t)>>

\* C16. Minimum image: canonicalize_state_action(S, A) is the image of (S, A)
\* under one of the 8 transforms, the same transform on state and action, and
\* is lexicographically less than or equal to each of the 8 images.
MinimumImage ==
    canon # <<>> =>
        LET key == canon.keys[0]
        IN  /\ \E t \in 0..7 : key = ImageOf(state, canon.action, t)
            /\ \A t \in 0..7 : LexLeq(key, ImageOf(state, canon.action, t))

\* a symmetric position: several images share the least state and the action decides
MinimumImageWitness ==
    /\ canon # <<>>
    /\ state # 0
    /\ \E t \in 1..7 :
          /\ _transform_state(state, t) = canon.keys[0][1]
          /\ _transform_index(canon.action, t) > canon.keys[0][2]
    /\ canon.keys[0] # <<state, canon.action>>

\* the keys recorded in the two histories
Recorded(m1, m2) == Range(m1) \cup Range(m2)

RECURSIVE SumCountsOver(_, _)
SumCountsOver(q, keys) ==
    IF keys = {} THEN 0
    ELSE LET k == CHOOSE x \in keys : TRUE
         IN  q[k][2] + SumCountsOver(q, keys \ {k})

\* the count mass of a table
SumCounts(q) == SumCountsOver(q, DOMAIN q)

\* C2. Reward conservation: the step that completes a learning game adds +1
\* to the sum of every key of the winner's history and -1 to every key of the
\* loser's, 0 after a draw, adds exactly 1 to the count of every recorded key,
\* and leaves every other entry as it was.
RewardConservation ==
    [][ (pc = "play" /\ pc' = "train" /\ gen # 3) =>
          LET result == check_winner(state')
              h1 == Range(moves1')
              h2 == Range(moves2')
              winner == IF result = 1 THEN h1 ELSE IF result = 2 THEN h2 ELSE {}
              loser == IF result = 1 THEN h2 ELSE IF result = 2 THEN h1 ELSE {}
              old == [k \in h1 \cup h2 \cup DOMAIN q_values |->
                         IF k \in DOMAIN q_values THEN q_values[k] ELSE <<0, 0>>]
          IN  /\ DOMAIN q_values' = (DOMAIN q_values) \cup h1 \cup h2
              /\ \A k \in DOMAIN q_values' :
                    /\ k \in winner =>
                          q_values'[k] = <<old[k][1] + 1, old[k][2] + 1>>
                    /\ k \in loser =>
                          q_values'[k] = <<old[k][1] - 1, old[k][2] + 1>>
                    /\ (result = -1 /\ k \in h1 \cup h2) =>
                          q_values'[k] = <<old[k][1], old[k][2] + 1>>
                    /\ k \notin h1 \cup h2 => q_values'[k] = old[k]
      ]_vars

\* a decisive regime-2 game won by player 2 was credited on top of earlier entries
RewardConservationWitness ==
    /\ pc = "train"
    /\ gen = 2
    /\ idx >= 1
    /\ check_winner(state) = 2
    /\ \E k \in Recorded(moves1, moves2) : q_values[k][2] >= 2

\* C3. Evaluation does not perturb the table: throughout regime 3 the table is
\* the one the regime started with, and in every mode the table is unchanged
\* while a game is being played (move selection only reads it).
EvaluationKeepsTable ==
    /\ gen = 3 => q_values = hist.qregime
    /\ pc = "play" => q_values = hist.qgame

\* two evaluation games were played on a learned table
EvaluationKeepsTableWitness ==
    /\ gen = 3
    /\ idx = 2
    /\ q_values # EmptyTable

\* C4. Count-mass conservation: from an empty table, between games the counts
\* of the table sum to the number of plies played in the learning games, and
\* during a game the histories hold this game's plies only.
CountMassConservation ==
    /\ pc # "play" => SumCounts(q_values) = hist.plies
    /\ pc = "play" =>
          Len(moves1) + Len(moves2) = 9 - Cardinality(EmptyCells(state))

\* a regime-1 game and a regime-2 game were played and credited
CountMassConservationWitness ==
    /\ pc = "done"
    /\ args[1] >= 1
    /\ args[2] >= 1
    /\ hist.plies >= 10

\* C5. Value-table invariant: every entry has count >= 1 and
\* -count <= sum <= count.
ValueTableInvariant ==
    \A k \in DOMAIN q_values :
        /\ q_values[k][2] >= 1
        /\ 0 - q_values[k][2] <= q_values[k][1]
        /\ q_values[k][1] <= q_values[k][2]

\* an entry credited in several games sits on the bound
ValueTableInvariantWitness ==
    \E k \in DOMAIN q_values :
        /\ q_values[k][2] >= 2
        /\ q_values[k][1] = q_values[k][2]

\* C10. Single-winner invariant: no board of a self-play game holds a
\* completed line of both players, and once check_winner is non-zero the
\* board is not written again (the next game starts on a fresh board).
SingleWinner ==
    [][ /\ ~(HoldsLine(state', 1) /\ HoldsLine(state', 2))
        /\ check_winner(state) # 0 =>
              \/ state' = state
              \/ pc = "train" /\ pc' = "play" /\ state' = 0
      ]_vars

\* a game was won with cells still empty, and it was left at that
SingleWinnerWitness ==
    /\ pc = "done"
    /\ check_winner(state) = 2
    /\ EmptyCells(state) # {}

\* C12. Outcome statistics: the step that completes a game adds exactly 1 to
\* stats['draws'] if the result is a draw and to stats['win_loss'] otherwise,
\* and leaves the other counter alone; no other step within a regime changes
\* the counters; a regime starts from zeroed counters; so win_loss + draws is
\* the number of games played in the regime.
OutcomeStatistics ==
    [][ LET completes == pc = "play" /\ pc' = "train"
            result == check_winner(state')
        IN  /\ (completes /\ result = -1) =>
                  /\ stats'.draws = stats.draws + 1
                  /\ stats'.win_loss = stats.win_loss
            /\ (completes /\ result # -1) =>
                  /\ stats'.win_loss = stats.win_loss + 1
                  /\ stats'.draws = stats.draws
            /\ (~completes /\ gen' = gen) => stats' = stats
            /\ gen' # gen => stats' = NoStats
            /\ stats'.win_loss + stats'.draws = idx'
            /\ (pc' = "train" /\ idx' = args'[gen']) =>
                  stats'.win_loss + stats'.draws = args'[gen']
      ]_vars

\* regime 2 ended with a draw and a decisive game counted, after a regime 1 that had a game
OutcomeStatisticsWitness ==
    /\ pc = "done"
    /\ gen = 2
    /\ args[1] >= 1
    /\ stats = [win_loss |-> 1, draws |-> 1]

\* C13. Selection precondition in self-play: whenever the loop of
\* simulate_game is about to call get_and_save_move the board has at least one
\* legal move, the move returned is an element of get_valid_moves(), and the
\* make_move_cpu that follows returns True.
SelectionPrecondition ==
    [][ /\ pc' = "play" => get_valid_moves(state') # <<>>
        /\ pc = "play" =>
              /\ get_valid_moves(state) # <<>>
              /\ call'.move \in Range(get_valid_moves(state))
              /\ call'.player = current
              /\ call'.ret = TRUE
      ]_vars

\* a move was picked by exploitation of a learned table with one cell left after it
SelectionPreconditionWitness ==
    /\ pc = "play"
    /\ gen = 2
    /\ q_values # EmptyTable
    /\ call.ret = TRUE
    /\ Len(get_valid_moves(state)) = 1

\* the calls of get_and_save_move made in the game so far
Plies(m1, m2) == Len(m1) + Len(m2)

\* C14. Game termination: every game that is being played eventually reaches a
\* terminal result and leaves its loop, it never holds more than 9 plies, and
\* the step that leaves the loop is ply 5, 6, 7, 8 or 9.
GameTermination ==
    /\ [](pc = "play" => Plies(moves1, moves2) < 9)
    /\ [][ (pc = "play" /\ pc' = "train") =>
              Plies(moves1', moves2') \in 5..9 ]_vars
    /\ (pc = "play" ~> pc = "train")

\* a game of a learned regime ended at its fifth ply
GameTerminationWitness ==
    /\ pc = "train"
    /\ gen = 2
    /\ idx >= 1
    /\ Plies(moves1, moves2) = 5

\* C15. Turn order in self-play: a game starts on an empty board with the
\* agent of marker 1 to move; plies 1, 3, 5, ... are made by marker 1 and plies
\* 2, 4, ... by marker 2; each ply turns exactly one empty cell into the acting
\* agent's marker; so (X marks) - (O marks) is 0 or 1 on every board, and
\* agent 1's history holds ceil(n/2) keys and agent 2's floor(n/2) keys, n
\* being the number of plies.
TurnOrder ==
    [][ LET n == Marks(state', 1) + Marks(state', 2)
        IN  /\ (pc = "train" /\ pc' = "play") => (state' = 0 /\ current' = 1)
            /\ pc = "play" =>
                  /\ call'.player = current
                  /\ call'.player = IF Plies(moves1, moves2) % 2 = 0 THEN 1 ELSE 2
                  /\ \E i \in Cells :
                        /\ Digit(state, i) = 0
                        /\ Digit(state', i) = call'.player
                        /\ \A j \in Cells \ {i} : Digit(state', j) = Digit(state, j)
                  /\ pc' = "play" => current' # current
            /\ Marks(state', 1) - Marks(state', 2) \in {0, 1}
            /\ n = Plies(moves1', moves2')
            /\ Len(moves1') = (n + 1) \div 2
            /\ Len(moves2') = n \div 2
      ]_vars

\* a game of nine plies ended: five keys for agent 1, four for agent 2
TurnOrderWitness ==
    /\ pc = "train"
    /\ idx >= 1
    /\ Len(moves1) = 5
    /\ Len(moves2) = 4
    /\ Marks(state, 1) = 5
    /\ call.player = 1

\* C17. Reward goes to the last mover: when a game ends decisively the marker
\* check_winner reports is the marker of the agent that made the final ply;
\* marker 1 wins only at an odd ply and marker 2 only at an even ply; and in a
\* learning game every key of the last mover gains +1 and every key of the
\* other agent -1.
RewardToLastMover ==
    [][ (pc = "play" /\ pc' = "train" /\ check_winner(state') \in {1, 2}) =>
          LET result == check_winner(state')
              n == Plies(moves1', moves2')
              last == call'.player
              mine == IF last = 1 THEN moves1' ELSE moves2'
              theirs == IF last = 1 THEN moves2' ELSE moves1'
          IN  /\ result = last
              /\ result = 1 => n % 2 = 1
              /\ result = 2 => n % 2 = 0
              /\ gen # 3 =>
                    /\ \A k \in Range(mine) :
                          q_values'[k][1] = QGet(q_values, k)[1] + 1
                    /\ \A k \in Range(theirs) :
                          q_values'[k][1] = QGet(q_values, k)[1] - 1
      ]_vars

\* marker 2 made the eighth ply of a regime-1 game and won it
RewardToLastMoverWitness ==
    /\ pc = "train"
    /\ gen = 1
    /\ idx >= 1
    /\ call.player = 2
    /\ check_winner(state) = 2
    /\ Plies(moves1, moves2) = 8
    /\ \A k \in Range(moves2) : q_values[k][1] >= 1

\* C18. No key is credited twice in one game: the keys recorded across both
\* histories are pairwise distinct, and the step that completes a learning
\* game raises the count of every recorded key by exactly 1 and of no other key.
NoDoubleCredit ==
    [][ LET recorded == Recorded(moves1', moves2')
        IN  /\ Cardinality(recorded) = Plies(moves1', moves2')
            /\ (pc = "play" /\ pc' = "train" /\ gen # 3) =>
                  \A k \in DOMAIN q_values' :
                      q_values'[k][2] - QGet(q_values, k)[2]
                          = IF k \in recorded THEN 1 ELSE 0
      ]_vars

\* nine distinct keys of a regime-2 game were credited, one of them for the second time
NoDoubleCreditWitness ==
    /\ pc = "train"
    /\ gen = 2
    /\ idx >= 1
    /\ Cardinality(Recorded(moves1, moves2)) = 9
    /\ \E k \in Recorded(moves1, moves2) : q_values[k][2] = 2
    /\ \E k \in Recorded(moves1, moves2) : q_values[k][2] = 1

\* a position of legal alternating play that is still in progress: X has as
\* many marks as O or one more, no line is completed and a cell is empty (its
\* marks, placed alternately in any order, never complete a line on the way)
InProgressPosition(s) ==
    /\ s \in 0..(3 ^ 9 - 1)
    /\ Marks(s, 1) - Marks(s, 2) \in {0, 1}
    /\ ~HoldsLine(s, 1)
    /\ ~HoldsLine(s, 2)
    /\ EmptyCells(s) # {}

\* C19. Table keys are well-formed canonical keys: every key (s, a) of the
\* table is returned unchanged by canonicalize_state_action and is the least
\* of its 8 images, s is a non-terminal position of legal alternating play,
\* and cell a of s is empty.
TableKeysCanonical ==
    \A k \in DOMAIN q_values :
        /\ canonicalize_state_action(k[1], k[2]) = k
        /\ \A t \in 0..7 : LexLeq(k, ImageOf(k[1], k[2], t))
        /\ InProgressPosition(k[1])
        /\ check_winner(k[1]) = 0
        /\ k[2] \in Cells
        /\ Digit(k[1], k[2]) = 0

\* the table holds the key of a last ply whose recorded pair is not the pair played
TableKeysCanonicalWitness ==
    /\ pc = "train"
    /\ idx >= 1
    /\ gen # 3
    /\ Plies(moves1, moves2) = 9
    /\ moves1[5] \in DOMAIN q_values
    /\ moves1[5][2] # call.move
    /\ Cardinality(EmptyCells(moves1[5][1])) = 1

\* C20. Evaluation is deterministic: every game of a regime-3 batch makes the
\* moves of the batch's first game, in the same order, and ends with the same
\* result; so the batch's statistics are all draws or all decisive.
EvaluationDeterministic ==
    gen = 3 =>
        /\ (idx >= 1 /\ pc = "play") =>
              /\ Len(hist.trace) <= Len(hist.first[1])
              /\ hist.trace = SubSeq(hist.first[1], 1, Len(hist.trace))
        /\ (idx >= 1 /\ pc # "play") =>
              hist.first = <<hist.trace, check_winner(state)>>
        /\ stats.draws = 0 \/ stats.win_loss = 0

\* a second test game on a learned table repeated the first, which did not
\* simply fill the cells in index order
EvaluationDeterministicWitness ==
    /\ gen = 3
    /\ pc = "done"
    /\ idx = 2
    /\ q_values # EmptyTable
    /\ hist.first # <<>>
    /\ hist.trace = hist.first[1]
    /\ \E i \in 1..Len(hist.trace) : hist.trace[i] # i - 1

\* the entry of a move's canonical key, (0, 0) when unseen
EntryOf(s, q, m) ==
    LET key == canonicalize_state_action(s, m)
    IN  IF key \in DOMAIN q THEN q[key] ELSE <<0, 0>>

\* sum/count (0 when count is 0) of e1 is greater than that of e2
AverageGreater(e1, e2) ==
    LET n1 == IF e1[2] > 0 THEN e1[1] ELSE 0
        d1 == IF e1[2] > 0 THEN e1[2] ELSE 1
        n2 == IF e2[2] > 0 THEN e2[1] ELSE 0
        d2 == IF e2[2] > 0 THEN e2[2] ELSE 1
    IN  n1 * d2 > n2 * d1

\* (average, count) of e1 is greater than that of e2, average first
ScoreGreater(e1, e2) ==
    \/ AverageGreater(e1, e2)
    \/ ~AverageGreater(e2, e1) /\ e1[2] > e2[2]

\* the smallest legal move whose (average, count) is maximal
SmallestBest(s, q) ==
    LET scored == {<<m, EntryOf(s, q, m)>> : m \in EmptyCells(s)}
        best == {x \in scored : \A y \in scored : ~ScoreGreater(y[2], x[2])}
    IN  CHOOSE m \in {x[1] : x \in best} : \A x \in best : m <= x[1]

\* C6. Greedy selection rule: with gen=3, epsilon=0 and a table supplied,
\* get_and_save_move returns the smallest index among the legal moves whose
\* (average, count) is maximal, average first and count second.
GreedySelection ==
    [][ (pc = "select" /\ pc' = "selected") =>
            call'.move = SmallestBest(state, q_values) ]_vars

\* moves 0 and 4 both had average 0.5 with equal counts, and 0 was returned
GreedySelectionWitness ==
    /\ pc = "selected"
    /\ call.move = 0
    /\ DOMAIN q_values = {<<0, 0>>, <<0, 4>>}
    /\ q_values[<<0, 0>>] = <<1, 2>>
    /\ q_values[<<0, 4>>] = <<1, 2>>

\* C21. GUI turn alternation: under every interleaving of clicks, New Game
\* and due root.after callbacks, every change of a game's board places exactly
\* one mark on an empty cell, X when the board holds as many X as O and O
\* otherwise, so (X marks) - (O marks) is 0 or 1 on every board; the human
\* places no mark while a _cpu_move is pending; and a _cpu_move scheduled in
\* an earlier game places no mark on a later game's board.
GuiTurnAlternation ==
    [][ LET same_game == gui'.game = gui.game
            placed == same_game /\ state' # state
            by_human == placed /\ Pending(gui'.after) >= Pending(gui.after)
            to_move == IF Marks(state, 1) = Marks(state, 2) THEN 1 ELSE 2
        IN  /\ Marks(state', 1) - Marks(state', 2) \in {0, 1}
            /\ placed =>
                  \E i \in Cells :
                      /\ Digit(state, i) = 0
                      /\ Digit(state', i) = to_move
                      /\ \A j \in Cells \ {i} : Digit(state', j) = Digit(state, j)
            /\ by_human => Pending(gui.after) = 0
            /\ \A g \in Games :
                  (placed /\ gui'.after[g] < gui.after[g]) => g = gui.game
      ]_vars

====
